---- MODULE Spec2Model ----
(***************************************************************************)
(* Model of streamlit_app.py: the example catalog EXAMPLES, the heatmap    *)
(* builder create_simple_heatmap, the token loop of main() and the script  *)
(* run of main() driven by the two sidebar selectboxes.                    *)
(*                                                                         *)
(* A Python str is modelled as the sequence of its characters, so that     *)
(* str.lower() is computed character by character.  The values 0.1, 0.8    *)
(* and 1.0 of the matrix are kept in tenths (1, 8, 10).                    *)
(***************************************************************************)
EXTENDS Naturals, Sequences, FiniteSets, TLC

VARIABLES EXAMPLES, selected_example, selected_word, attending_words,
          pc, word_i, sentence_html, tokens, insight, fig, exc, heatmap,
          attention_list, call

ctlvars ==
    <<EXAMPLES, selected_example, selected_word, attending_words,
      pc, word_i, sentence_html, tokens, insight, fig, exc, heatmap,
      attention_list>>

vars ==
    <<ctlvars, call>>

(***************************************************************************)
(* Strings                                                                 *)
(***************************************************************************)
Uppercase ==
    <<"A", "B", "C", "D", "E", "F", "G", "H", "I", "J", "K", "L", "M",
      "N", "O", "P", "Q", "R", "S", "T", "U", "V", "W", "X", "Y", "Z">>

Lowercase ==
    <<"a", "b", "c", "d", "e", "f", "g", "h", "i", "j", "k", "l", "m",
      "n", "o", "p", "q", "r", "s", "t", "u", "v", "w", "x", "y", "z">>

\* str.lower() on one character
LowerChar(c) ==
    IF \E k \in 1..Len(Uppercase) : Uppercase[k] = c
    THEN Lowercase[CHOOSE k \in 1..Len(Uppercase) : Uppercase[k] = c]
    ELSE c

\* str.lower()
Lower(s) ==
    [k \in 1..Len(s) |-> LowerChar(s[k])]

Range(seq) ==
    {seq[k] : k \in 1..Len(seq)}

\* x in list
In(x, list) ==
    \E k \in 1..Len(list) : list[k] = x

\* list.index(x): 1-based position of the first occurrence (x is in list)
Index(list, x) ==
    CHOOSE k \in 1..Len(list) :
        /\ list[k] = x
        /\ \A m \in 1..(k - 1) : list[m] # x

(***************************************************************************)
(* The words of the two sentences                                          *)
(***************************************************************************)
s_Our ==
    <<"O", "u", "r">>

s_company ==
    <<"c", "o", "m", "p", "a", "n", "y">>

s_reported ==
    <<"r", "e", "p", "o", "r", "t", "e", "d">>

s_strong ==
    <<"s", "t", "r", "o", "n", "g">>

s_quarterly ==
    <<"q", "u", "a", "r", "t", "e", "r", "l", "y">>

s_profits ==
    <<"p", "r", "o", "f", "i", "t", "s">>

s_and ==
    <<"a", "n", "d">>

s_the ==
    <<"t", "h", "e">>

s_stock ==
    <<"s", "t", "o", "c", "k">>

s_price ==
    <<"p", "r", "i", "c", "e">>

s_surged ==
    <<"s", "u", "r", "g", "e", "d">>

s_The ==
    <<"T", "h", "e">>

s_new ==
    <<"n", "e", "w">>

s_AI ==
    <<"A", "I">>

s_model ==
    <<"m", "o", "d", "e", "l">>

s_processes ==
    <<"p", "r", "o", "c", "e", "s", "s", "e", "s">>

s_language ==
    <<"l", "a", "n", "g", "u", "a", "g", "e">>

s_better ==
    <<"b", "e", "t", "t", "e", "r">>

s_than ==
    <<"t", "h", "a", "n">>

s_previous ==
    <<"p", "r", "e", "v", "i", "o", "u", "s">>

s_versions ==
    <<"v", "e", "r", "s", "i", "o", "n", "s">>

(***************************************************************************)
(* The catalog, in insertion order of the dict EXAMPLES                    *)
(***************************************************************************)
BusinessWords ==
    <<s_Our, s_company, s_reported, s_strong, s_quarterly, s_profits,
      s_and, s_the, s_stock, s_price, s_surged>>

BusinessAttention ==
    (s_stock :> <<s_company, s_profits, s_surged>>) @@
    (s_profits :> <<s_company, s_quarterly, s_strong>>) @@
    (s_surged :> <<s_profits, s_stock, s_strong>>) @@
    (s_company :> <<s_Our, s_profits, s_stock>>)

TechnologyWords ==
    <<s_The, s_new, s_AI, s_model, s_processes, s_language, s_better,
      s_than, s_previous, s_versions>>

TechnologyAttention ==
    (s_model :> <<s_AI, s_new, s_processes>>) @@
    (s_processes :> <<s_model, s_language, s_AI>>) @@
    (s_language :> <<s_processes, s_model, s_better>>) @@
    (s_AI :> <<s_model, s_new, s_processes>>)

InitialExamples ==
    << [name |-> "Business", words |-> BusinessWords,
        attention |-> BusinessAttention],
       [name |-> "Technology", words |-> TechnologyWords,
        attention |-> TechnologyAttention] >>

(***************************************************************************)
(* create_simple_heatmap                                                   *)
(***************************************************************************)
\* Base attention, np.full((n, n), 0.1), in tenths
Base ==
    1

\* np.fill_diagonal(matrix, 1.0), in tenths
Self ==
    10

\* matrix[selected_idx][target_idx] = 0.8, in tenths
Attended ==
    8

\* np.full((n, n), v)
Full(n, v) ==
    [r \in 1..n |-> [c \in 1..n |-> v]]

\* the diagonal is never written
FillDiagonalSkipped(matrix, v) ==
    matrix

\* np.fill_diagonal(matrix, v)
FillDiagonal(matrix, v) ==
    [r \in 1..Len(matrix) |->
        [c \in 1..Len(matrix[r]) |-> IF r = c THEN v ELSE matrix[r][c]]]

\* matrix[c][r] = v: row and column swapped
SetCellSwapped(matrix, r, c, v) ==
    [matrix EXCEPT ![c] = [@ EXCEPT ![r] = v]]

\* matrix[r][c] = v
SetCell(matrix, r, c, v) ==
    [matrix EXCEPT ![r] = [@ EXCEPT ![c] = v]]

\* for target_word in attention_dict[selected_word.lower()]: ...
RECURSIVE FillAttention(_, _, _, _)
FillAttention(matrix, words, selected_idx, targets) ==
    IF targets = <<>>
    THEN matrix
    ELSE LET target_word == Head(targets)
             written == IF In(target_word, words)
                        THEN SetCell(matrix, selected_idx,
                                     Index(words, target_word), Attended)
                        ELSE matrix
         IN  FillAttention(written, words, selected_idx, Tail(targets))

\* px.imshow(matrix, x=words, y=words, title=...)
Figure(matrix, words, sel) ==
    [kind |-> "fig", matrix |-> matrix, x |-> words, y |-> words,
     title |-> sel]

\* the loop without "if target_word in words": words.index(target_word)
\* raises on a target that is not in words
create_simple_heatmap_unguarded(words, sel, attention_dict) ==
    LET n == Len(words)
        matrix == FillDiagonal(Full(n, Base), Self)
    IN  IF Lower(sel) \in DOMAIN attention_dict
        THEN IF \/ ~In(sel, words)
                \/ \E k \in 1..Len(attention_dict[Lower(sel)]) :
                       ~In(attention_dict[Lower(sel)][k], words)
             THEN [kind |-> "raise", error |-> "ValueError"]
             ELSE Figure(FillAttention(matrix, words, Index(words, sel),
                                       attention_dict[Lower(sel)]),
                         words, sel)
        ELSE Figure(matrix, words, sel)

\* The outcome of one call: the figure returned, or the ValueError that
\* words.index(selected_word) raises when it is not in words.
create_simple_heatmap(words, sel, attention_dict) ==
    LET n == Len(words)
        matrix == FillDiagonal(Full(n, Base), Self)
    IN  IF Lower(sel) \in DOMAIN attention_dict
        THEN IF ~In(sel, words)
             THEN [kind |-> "raise", error |-> "ValueError"]
             ELSE Figure(FillAttention(matrix, words,
                                       Index(words, sel),
                                       attention_dict[Lower(sel)]),
                         words, sel)
        ELSE Figure(matrix, words, sel)

(***************************************************************************)
(* The token loop of main()                                                *)
(***************************************************************************)
CssSelected ==
    "word-box selected-word"

CssAttending ==
    "word-box attending-word"

CssNeutral ==
    "word-box"

\* the two tests in the other order: attending wins over selected
CssClassAttendingFirst(word, sel, attending) ==
    IF In(word, attending)
    THEN CssAttending
    ELSE IF word = sel
         THEN CssSelected
         ELSE CssNeutral

\* the if / elif / else of the loop body
CssClass(word, sel, attending) ==
    IF word = sel
    THEN CssSelected
    ELSE IF In(word, attending)
         THEN CssAttending
         ELSE CssNeutral

\* one <span class="{css_class}">{word}</span>
Span(word, sel, attending) ==
    [word |-> word, css |-> CssClass(word, sel, attending)]

\* the whole loop: sentence_html after the last iteration
RECURSIVE RenderFrom(_, _, _, _)
RenderFrom(html, rest, sel, attending) ==
    IF rest = <<>>
    THEN html
    ELSE RenderFrom(Append(html, Span(Head(rest), sel, attending)),
                    Tail(rest), sel, attending)

RenderSentence(words, sel, attending) ==
    RenderFrom(<<>>, words, sel, attending)

(***************************************************************************)
(* main(): lookups                                                         *)
(***************************************************************************)
\* list(EXAMPLES.keys())
ExampleNames(examples) ==
    [k \in 1..Len(examples) |-> examples[k].name]

\* EXAMPLES[selected_example]
CurrentData(examples, name) ==
    examples[CHOOSE k \in 1..Len(examples) : examples[k].name = name]

\* [w for w in words if w.lower() in attention_dict]
AvailableWords(words, attention_dict) ==
    SelectSeq(words, LAMBDA w : Lower(w) \in DOMAIN attention_dict)

\* attention_dict.get(selected_word.lower(), [])
GetAttending(attention_dict, sel) ==
    IF Lower(sel) \in DOMAIN attention_dict
    THEN attention_dict[Lower(sel)]
    ELSE <<>>

\* the selectbox keeps the value held before, whatever the options are
SelectboxKeepsHeld(options, held) ==
    {held}

\* The value a selectbox hands back on a rerun whose option list may have
\* changed: the first option (default index 0), or the value held before
\* when it is still one of the options.
SelectboxValues(options, held) ==
    {options[1]} \cup {w \in Range(options) : w = held}

(***************************************************************************)
(* main(): one script run per selection                                    *)
(*                                                                         *)
(* pc is the position of the run: "sentence" (token loop), "heatmap" (the  *)
(* try block before create_simple_heatmap), "plot" (before                 *)
(* st.plotly_chart), "except" (the except clause), "list" (the attention   *)
(* list), "done" (the run is over and the page waits for a selection).     *)
(* The catalog never leaves a selectbox without options, so the run never  *)
(* sees a selected_word of None.                                           *)
(***************************************************************************)
Nothing ==
    [kind |-> "none"]

NoCall ==
    [fn |-> "none"]

Words ==
    CurrentData(EXAMPLES, selected_example).words

AttentionDict ==
    CurrentData(EXAMPLES, selected_example).attention

\* the top of main() for the selection (name, word): the page of the
\* previous run is replaced and the token loop is about to start
StartRun(name, word) ==
    /\ selected_example' = name
    /\ selected_word' = word
    /\ attending_words' = GetAttending(CurrentData(EXAMPLES, name).attention, word)
    /\ word_i' = 1
    /\ sentence_html' = <<>>
    /\ tokens' = <<>>
    /\ insight' = Nothing
    /\ fig' = Nothing
    /\ exc' = "none"
    /\ heatmap' = Nothing
    /\ attention_list' = Nothing
    /\ pc' = "sentence"
    /\ UNCHANGED <<EXAMPLES, call>>

\* the user picks another example in "Choose Example:"
SelectExample(name) ==
    /\ pc = "done"
    /\ In(name, ExampleNames(EXAMPLES))
    /\ name # selected_example
    /\ LET data == CurrentData(EXAMPLES, name)
           available_words == AvailableWords(data.words, data.attention)
       IN  \E word \in SelectboxValues(available_words, selected_word) :
               StartRun(name, word)

\* the user picks another word in "Select Word:"
SelectWord(word) ==
    /\ pc = "done"
    /\ In(word, AvailableWords(Words, AttentionDict))
    /\ word # selected_word
    /\ StartRun(selected_example, word)

\* the loop eats the list it walks: words.pop(0) on the catalog's own list
RenderTokenPop ==
    /\ pc = "sentence"
    /\ word_i <= Len(Words)
    /\ sentence_html' = Append(sentence_html,
                               Span(Words[1], selected_word, attending_words))
    /\ EXAMPLES' = [k \in 1..Len(EXAMPLES) |->
                       IF EXAMPLES[k].name = selected_example
                       THEN [EXAMPLES[k] EXCEPT !.words = Tail(@)]
                       ELSE EXAMPLES[k]]
    /\ word_i' = word_i
    /\ UNCHANGED <<selected_example, selected_word, attending_words,
                   pc, tokens, insight, fig, exc, heatmap, attention_list, call>>

\* one iteration of "for word in words"
RenderToken ==
    /\ pc = "sentence"
    /\ word_i <= Len(Words)
    /\ sentence_html' = Append(sentence_html,
                               Span(Words[word_i], selected_word, attending_words))
    /\ word_i' = word_i + 1
    /\ UNCHANGED <<EXAMPLES, selected_example, selected_word, attending_words,
                   pc, tokens, insight, fig, exc, heatmap, attention_list, call>>

\* st.markdown(sentence_html) and the insight box
ShowSentence ==
    /\ pc = "sentence"
    /\ word_i > Len(Words)
    /\ tokens' = sentence_html
    /\ insight' = IF attending_words # <<>>
                  THEN [kind |-> "insight", word |-> selected_word,
                        items |-> attending_words]
                  ELSE Nothing
    /\ pc' = "heatmap"
    /\ UNCHANGED <<EXAMPLES, selected_example, selected_word, attending_words,
                   word_i, sentence_html, fig, exc, heatmap, attention_list, call>>

\* fig = create_simple_heatmap(words, selected_word, attention_dict)
CreateHeatmap ==
    /\ pc = "heatmap"
    /\ LET r == create_simple_heatmap(Words, selected_word, AttentionDict)
       IN  IF r.kind = "raise"
           THEN /\ exc' = r.error
                /\ pc' = "except"
                /\ fig' = fig
           ELSE /\ fig' = r
                /\ pc' = "plot"
                /\ exc' = exc
    /\ UNCHANGED <<EXAMPLES, selected_example, selected_word, attending_words,
                   word_i, sentence_html, tokens, insight, heatmap,
                   attention_list, call>>

\* the plotting backend raises inside create_simple_heatmap (px.imshow,
\* fig.update_layout)
CreateHeatmapRaises ==
    /\ pc = "heatmap"
    /\ exc' = "px.imshow"
    /\ pc' = "except"
    /\ UNCHANGED <<EXAMPLES, selected_example, selected_word, attending_words,
                   word_i, sentence_html, tokens, insight, fig, heatmap,
                   attention_list, call>>

\* st.plotly_chart(fig, use_container_width=True)
PlotlyChart ==
    /\ pc = "plot"
    /\ heatmap' = fig
    /\ pc' = "list"
    /\ UNCHANGED <<EXAMPLES, selected_example, selected_word, attending_words,
                   word_i, sentence_html, tokens, insight, fig, exc,
                   attention_list, call>>

\* st.plotly_chart raises
PlotlyChartRaises ==
    /\ pc = "plot"
    /\ exc' = "st.plotly_chart"
    /\ pc' = "except"
    /\ UNCHANGED <<EXAMPLES, selected_example, selected_word, attending_words,
                   word_i, sentence_html, tokens, insight, fig, heatmap,
                   attention_list, call>>

\* no except clause: the exception leaves main() and the run stops there
ExceptionEscapes ==
    /\ pc = "except"
    /\ pc' = "crashed"
    /\ UNCHANGED <<EXAMPLES, selected_example, selected_word, attending_words,
                   word_i, sentence_html, tokens, insight, fig, exc, heatmap,
                   attention_list, call>>

\* except Exception as e: st.error(...); st.info(...)
ExceptHandler ==
    /\ pc = "except"
    /\ heatmap' = [kind |-> "error", text |-> exc]
    /\ exc' = "none"
    /\ pc' = "list"
    /\ UNCHANGED <<EXAMPLES, selected_example, selected_word, attending_words,
                   word_i, sentence_html, tokens, insight, fig,
                   attention_list, call>>

\* the "Attention List" column; the rest of the page is static text
ShowList ==
    /\ pc = "list"
    /\ attention_list' = IF attending_words # <<>>
                         THEN [kind |-> "list", items |-> attending_words]
                         ELSE [kind |-> "text"]
    /\ pc' = "done"
    /\ UNCHANGED <<EXAMPLES, selected_example, selected_word, attending_words,
                   word_i, sentence_html, tokens, insight, fig, exc, heatmap,
                   call>>

\* the first run: both selectboxes hand back their first option
Init ==
    /\ EXAMPLES = InitialExamples
    /\ selected_example = ExampleNames(InitialExamples)[1]
    /\ selected_word = AvailableWords(InitialExamples[1].words,
                                      InitialExamples[1].attention)[1]
    /\ attending_words = GetAttending(InitialExamples[1].attention, selected_word)
    /\ word_i = 1
    /\ sentence_html = <<>>
    /\ tokens = <<>>
    /\ insight = Nothing
    /\ fig = Nothing
    /\ exc = "none"
    /\ heatmap = Nothing
    /\ attention_list = Nothing
    /\ pc = "sentence"
    /\ call = NoCall

Next ==
    \/ \E name \in {"Business", "Technology"} : SelectExample(name)
    \/ \E word \in Range(Words) : SelectWord(word)
    \/ RenderToken
    \/ ShowSentence
    \/ CreateHeatmap
    \/ CreateHeatmapRaises
    \/ PlotlyChart
    \/ PlotlyChartRaises
    \/ ExceptHandler
    \/ ShowList

Spec ==
    Init /\ [][Next]_vars

\* a started run goes on to its end; the user may never select again
Run ==
    \/ RenderToken
    \/ ShowSentence
    \/ CreateHeatmap
    \/ CreateHeatmapRaises
    \/ PlotlyChart
    \/ PlotlyChartRaises
    \/ ExceptHandler
    \/ ShowList

LiveSpec ==
    Init /\ [][Next]_vars /\ WF_vars(Run)

(***************************************************************************)
(* The two functions called on arbitrary arguments                         *)
(***************************************************************************)
MaxLen ==
    3

MaxTargets ==
    2

MaxKeys ==
    2

\* "A" and "a" differ by case only
Vocab ==
    {<<"A">>, <<"a">>, <<"b">>}

ListsUpTo(n) ==
    UNION {[1..k -> Vocab] : k \in 0..n}

\* the dicts of at most MaxKeys keys; the builder reads one entry of the
\* dict, so all the keys of a dict carry the same attended list
Dicts ==
    {[key \in K |-> targets] :
        K \in {K \in SUBSET Vocab : Cardinality(K) <= MaxKeys},
        targets \in ListsUpTo(MaxTargets)}

\* one behaviour is one call: the functions keep nothing between calls
CallBuilder ==
    /\ call = NoCall
    /\ \E words \in ListsUpTo(MaxLen), sel \in Vocab, attention_dict \in Dicts :
           call' = [fn |-> "create_simple_heatmap", words |-> words,
                    sel |-> sel, attention_dict |-> attention_dict,
                    ret |-> create_simple_heatmap(words, sel, attention_dict)]
    /\ UNCHANGED ctlvars

CallRenderer ==
    /\ call = NoCall
    /\ \E words \in ListsUpTo(MaxLen), sel \in Vocab,
          attending \in ListsUpTo(MaxTargets) :
           call' = [fn |-> "render", words |-> words, sel |-> sel,
                    attending |-> attending,
                    ret |-> RenderSentence(words, sel, attending)]
    /\ UNCHANGED ctlvars

InitFn ==
    /\ EXAMPLES = InitialExamples
    /\ selected_example = "Business"
    /\ selected_word = s_company
    /\ attending_words = <<>>
    /\ word_i = 1
    /\ sentence_html = <<>>
    /\ tokens = <<>>
    /\ insight = Nothing
    /\ fig = Nothing
    /\ exc = "none"
    /\ heatmap = Nothing
    /\ attention_list = Nothing
    /\ pc = "off"
    /\ call = NoCall

NextFn ==
    \/ CallBuilder
    \/ CallRenderer

FnSpec ==
    InitFn /\ [][NextFn]_vars

(***************************************************************************)
(* Properties                                                              *)
(***************************************************************************)
IsBuilderCall ==
    call.fn = "create_simple_heatmap"

IsRendererCall ==
    call.fn = "render"

\* the positions of list that hold x
Positions(list, x) ==
    {k \in 1..Len(list) : list[k] = x}

\* the positions of html that carry the class css
WithClass(html, css) ==
    {k \in 1..Len(html) : html[k].css = css}

\* m is an n x n matrix
IsSquare(m, n) ==
    /\ Len(m) = n
    /\ \A r \in 1..n : Len(m[r]) = n

\* C1: after any sequence of selectExample and selectWord, the current word
\* is a word of the current example whose lowercase form is a key of that
\* example's attention mapping, also right after a change of example.
C1_CurrentWordAvailable ==
    /\ In(selected_word, Words)
    /\ Lower(selected_word) \in DOMAIN AttentionDict

\* C1 witness: the run that follows a change to the Technology example,
\* none of whose words is a word of the Business example.
C1_Witness ==
    /\ selected_example = "Technology"
    /\ pc = "sentence"
    /\ word_i = 1
    /\ ~In(selected_word, BusinessWords)

\* C2 (as claimed): a call of the builder with a selected word that is not
\* in words always ends in an error and never returns a matrix.
C2_AbsentWordRaises ==
    (IsBuilderCall /\ ~In(call.sel, call.words)) => call.ret.kind = "raise"

\* the cell (r, c) of the matrix built for the word w of an example is one
\* that the loop over the attended list of w may write
AttendedCell(words, w, attention_dict, r, c) ==
    /\ r = Index(words, w)
    /\ In(words[c], attention_dict[Lower(w)])

\* the result r of the builder for the word w obeys C3
C3_Holds(r, words, w, attention_dict) ==
    /\ r.kind = "fig"
    /\ IsSquare(r.matrix, Len(words))
    /\ \A i \in 1..Len(words) : r.matrix[i][i] = Self
    /\ \A i \in 1..Len(words), j \in 1..Len(words) :
           (i # j /\ ~AttendedCell(words, w, attention_dict, i, j))
               => r.matrix[i][j] = Base

\* C3: for every example of the catalog and every word of it whose
\* lowercase form is an attention key, the builder returns an N x N matrix
\* with 1.0 on the whole diagonal and 0.1 in every off-diagonal cell that is
\* not an attended cell of the word's row; the figure of the current run is
\* such a matrix.
C3_DiagonalAndBaseline ==
    /\ \A k \in 1..Len(EXAMPLES) :
           \A w \in Range(EXAMPLES[k].words) :
               Lower(w) \in DOMAIN EXAMPLES[k].attention
                   => C3_Holds(create_simple_heatmap(EXAMPLES[k].words, w,
                                                     EXAMPLES[k].attention),
                               EXAMPLES[k].words, w, EXAMPLES[k].attention)
    /\ fig.kind = "fig"
           => C3_Holds(fig, Words, selected_word, AttentionDict)

\* C3 witness: the figure of a word of the Technology example has been built.
C3_Witness ==
    /\ pc = "plot"
    /\ fig.kind = "fig"
    /\ selected_example = "Technology"
    /\ selected_word = s_processes

\* the targets of the call's selected word that are in words
PresentTargets ==
    {t \in Range(call.attention_dict[Lower(call.sel)]) : In(t, call.words)}

\* C4: when the selected word is in words and its lowercase form is a key,
\* the builder returns a figure in which the cell of the selected word's row
\* (first occurrence) and of each present target's column (first occurrence)
\* is 0.8, and no other cell differs from 1.0 on the diagonal and 0.1 off it:
\* a target that is not in words raises nothing and writes nothing.  For the
\* Business example and "stock" the row is 0.1 except 0.8 under "company",
\* "profits", "surged" and 1.0 under "stock".
C4_AttendedCells ==
    /\ (IsBuilderCall /\ In(call.sel, call.words)
          /\ Lower(call.sel) \in DOMAIN call.attention_dict)
       => /\ call.ret.kind = "fig"
          /\ IsSquare(call.ret.matrix, Len(call.words))
          /\ \A t \in PresentTargets :
                 call.ret.matrix[Index(call.words, call.sel)]
                                [Index(call.words, t)] = Attended
          /\ \A i \in 1..Len(call.words), j \in 1..Len(call.words) :
                 (~(/\ i = Index(call.words, call.sel)
                    /\ \E t \in PresentTargets : j = Index(call.words, t)))
                     => call.ret.matrix[i][j] = (IF i = j THEN Self ELSE Base)
    /\ LET r == create_simple_heatmap(BusinessWords, s_stock, BusinessAttention)
       IN  /\ r.kind = "fig"
           /\ r.matrix[9] = <<Base, Attended, Base, Base, Base, Attended,
                              Base, Base, Self, Base, Attended>>

\* C4 witness: a call whose attended list has a target in words and a target
\* that is not in words.
C4_Witness ==
    /\ IsBuilderCall
    /\ In(call.sel, call.words)
    /\ Lower(call.sel) \in DOMAIN call.attention_dict
    /\ call.ret.kind = "fig"
    /\ PresentTargets # {}
    /\ \E t \in Range(call.attention_dict[Lower(call.sel)]) : ~In(t, call.words)

\* what C5 says of every pair but the count of selected pairs
C5_PairsAndClasses ==
    /\ Len(call.ret) = Len(call.words)
    /\ \A k \in 1..Len(call.words) :
           /\ call.ret[k].word = call.words[k]
           /\ call.ret[k].css =
                  IF call.words[k] = call.sel
                  THEN CssSelected
                  ELSE IF In(call.words[k], call.attending)
                       THEN CssAttending
                       ELSE CssNeutral

\* C5 (as claimed): the renderer returns len(words) pairs in input order,
\* exactly one of them of class selected when the selected word is in words,
\* attending for the other words of the attended list, neutral for the rest.
C5_ExactlyOneSelected ==
    IsRendererCall
        => /\ C5_PairsAndClasses
           /\ In(call.sel, call.words)
                  => Cardinality(WithClass(call.ret, CssSelected)) = 1

\* C5 (amended): the renderer returns len(words) pairs in input order; the
\* pairs of class selected are those at the positions of the selected word,
\* one pair when the word occurs once in words; selected wins over attending.
C5_SelectedAtEveryOccurrence ==
    IsRendererCall
        => /\ C5_PairsAndClasses
           /\ WithClass(call.ret, CssSelected) = Positions(call.words, call.sel)
           /\ Cardinality(Positions(call.words, call.sel)) = 1
                  => Cardinality(WithClass(call.ret, CssSelected)) = 1

\* C5 witness: the selected word occurs twice in words and is in the
\* attended list as well, next to a word that is attending.
C5_Witness ==
    /\ IsRendererCall
    /\ Cardinality(Positions(call.words, call.sel)) = 2
    /\ In(call.sel, call.attending)
    /\ WithClass(call.ret, CssAttending) # {}

\* the page at the end of a run whose heatmap failed: the error message in
\* the heatmap panel, the tokens and the list of the current selection, and
\* the selectboxes ready for the next selection
C6_PageAfterFailure ==
    /\ pc = "done"
    /\ heatmap.kind = "error"
    /\ tokens = RenderSentence(Words, selected_word, attending_words)
    /\ attention_list.kind = "list"
    /\ attention_list.items = GetAttending(AttentionDict, selected_word)
    /\ ENABLED (\E name \in {"Business", "Technology"} : SelectExample(name))
    /\ ENABLED (\E word \in Range(Words) : SelectWord(word))

\* C6: an exception raised while the heatmap is built or drawn is caught:
\* the next step of the run puts the error message in the heatmap panel and
\* goes on to the attention list, and the run ends with the tokens and the
\* list displayed and both selections open.
C6_FailureIsCaught ==
    /\ [][pc = "except" => (pc' = "list" /\ heatmap'.kind = "error")]_vars
    /\ (pc = "except") ~> C6_PageAfterFailure

\* C6 witness: a run of the Business example that ended after a failure of
\* the heatmap.
C6_Witness ==
    /\ pc = "done"
    /\ heatmap.kind = "error"
    /\ selected_example = "Business"
    /\ Len(tokens) = Len(BusinessWords)

\* C7 (as claimed): for a one-word sentence whose word attends only to
\* itself, the builder returns the 1 x 1 matrix holding 1.0 and the renderer
\* returns no token of class attending.
C7_SingleWord ==
    /\ (/\ IsBuilderCall
        /\ call.words = <<call.sel>>
        /\ Lower(call.sel) \in DOMAIN call.attention_dict
        /\ call.attention_dict[Lower(call.sel)] = <<call.sel>>)
       => (call.ret.kind = "fig" /\ call.ret.matrix = << <<Self>> >>)
    /\ (/\ IsRendererCall
        /\ call.words = <<call.sel>>
        /\ call.attending = <<call.sel>>)
       => WithClass(call.ret, CssAttending) = {}

\* C8 (as claimed): every key of every example's attention mapping is the
\* lowercase form of a word of the example, so that some selectable word
\* leads to the key's attended list.
C8_KeysAreLowercasedWords ==
    \A k \in 1..Len(EXAMPLES) :
        \A key \in DOMAIN EXAMPLES[k].attention :
            /\ \E w \in Range(EXAMPLES[k].words) : Lower(w) = key
            /\ \E w \in Range(AvailableWords(EXAMPLES[k].words,
                                             EXAMPLES[k].attention)) :
                   Lower(w) = key

\* C9: no step of a run, of a selection or of the except clause changes the
\* catalog: the names, the words and the attention mappings stay what they
\* were at the start.
C9_CatalogUnchanged ==
    EXAMPLES = InitialExamples

\* C9 witness: a run of the Technology example, reached by a selection, is
\* over after its heatmap failed.
C9_Witness ==
    /\ pc = "done"
    /\ selected_example = "Technology"
    /\ heatmap.kind = "error"
    /\ attention_list.kind = "list"

SelectedIdx ==
    Index(Words, selected_word)

\* C10: whatever is on the page belongs to the current selection and the
\* three outputs agree: away from the selected word's position a token is
\* attending exactly where the selected word's row of the matrix holds 0.8,
\* and the words there are the items of the displayed list that are in words.
C10_OutputsAgree ==
    /\ tokens # <<>>
           => /\ Len(tokens) = Len(Words)
              /\ \A j \in 1..Len(Words) : tokens[j].word = Words[j]
              /\ WithClass(tokens, CssSelected) = {SelectedIdx}
    /\ heatmap.kind = "fig"
           => /\ heatmap.title = selected_word
              /\ heatmap.x = Words
              /\ heatmap.y = Words
              /\ \A j \in 1..Len(Words) \ {SelectedIdx} :
                     tokens[j].css = CssAttending
                         <=> heatmap.matrix[SelectedIdx][j] = Attended
    /\ attention_list.kind # "none"
           => /\ attention_list.kind = "list"
              /\ attention_list.items = AttentionDict[Lower(selected_word)]
              /\ {Words[j] : j \in WithClass(tokens, CssAttending)}
                     = {w \in Range(attention_list.items) : In(w, Words)}

\* C10 witness: a finished run with the heatmap drawn, for a selection made
\* after an earlier one.
C10_Witness ==
    /\ pc = "done"
    /\ heatmap.kind = "fig"
    /\ attention_list.kind = "list"
    /\ selected_example = "Technology"
    /\ selected_word = s_language

====
